---- MODULE Spec2Model ----
(***************************************************************************)
(* Model of the CSV ingestion pipeline of challenge.ts.                    *)
(*                                                                         *)
(* processDataDump runs insertDataWithSummary once per table on one knex   *)
(* connection.  insertDataWithSummary attaches three handlers to the       *)
(* parsed CSV stream: an async 'data' handler, an async 'end' handler and  *)
(* an 'error' handler.  The stream is never paused, so the handlers run    *)
(* interleaved with each other at every await that waits for the database  *)
(* (BEGIN, INSERT, COMMIT / ROLLBACK).  The continuation that follows the  *)
(* settling of db.transaction runs in the same turn as the settling and is *)
(* part of the same step.  All transactions share the one connection of    *)
(* the knex sqlite3 client and get it in the order they were requested.    *)
(***************************************************************************)
EXTENDS Integers, Sequences, FiniteSets, TLC

\* Number of tables processDataDump loads (customers, organizations).
NumJobs == 2
\* Largest number of records a CSV source delivers in the model.
MaxRecords == 2
\* Largest batch size explored (the code's default is 100).
MaxBatch == 2

Jobs == 1..NumJobs

VARIABLES
    batchSize,      \* insertDataWithSummary's batchSize parameter
    opc,            \* position of processDataDump
    cur,            \* the job processDataDump is awaiting
    inserted,       \* customerRowsInserted / organizationRowsInserted
    srcState,       \* per job: state of the CSV stream
    produced,       \* per job: records the stream has emitted so far
    rows,           \* per job: the rows array (record ids, in source order)
    totalRowCount,  \* per job: the totalRowCount local
    promise,        \* per job: state of the promise insertDataWithSummary returned
    result,         \* per job: value the promise settled with
    txq,            \* transactions on the connection: head holds it, rest wait
    store,          \* per job: rows durable in the job's table
    failLog,        \* failed_rows.log: <<job, record>> in append order
    attempts,       \* per job: sizes of the row sets handed to insert, in order
    nFailed,        \* per job: number of transactions that failed
    failedSnap,     \* per job: the row set of the first failed transaction
    durableAtSettle \* per job: rows durable when the promise settled

vars == <<batchSize, opc, cur, inserted, srcState, produced, rows, totalRowCount,
          promise, result, txq, store, failLog, attempts, nFailed, failedSnap,
          durableAtSettle>>

orchVars == <<opc, cur, inserted>>
ghostVars == <<attempts, nFailed, failedSnap>>

----------------------------------------------------------------------------
\* Helpers

\* A transaction started by handler h of job j; ready is the rows array at
\* the moment db.transaction was called.
NewTx(j, h, buf) ==
    [job |-> j, handler |-> h, stage |-> "begin", ready |-> buf, snap |-> <<>>]

\* resolve(v) / reject({totalRowCount: v, message}) on the job's promise: only
\* the first settlement takes effect.  how is "resolved", "rejected_commit"
\* (message "Stopped processing ...") or "rejected_read" (message "Error
\* reading CSV file ...").
Settle(j, how, v) ==
    IF promise[j] = "pending"
    THEN /\ promise' = [promise EXCEPT ![j] = how]
         /\ result' = [result EXCEPT ![j] = v]
         /\ durableAtSettle' = [durableAtSettle EXCEPT ![j] = Len(store'[j])]
    ELSE UNCHANGED <<promise, result, durableAtSettle>>

\* logFailedRows(rows): one line per row, appended when rows is non-empty.
logFailedRows(j, buf) ==
    failLog \o [i \in 1..Len(buf) |-> <<j, buf[i]>>]

\* The process is alive: it has neither exited nor been terminated.
Running == opc \notin {"exited", "crashed"}

\* The transaction at the head of the queue holds the connection.
HeadIs(st) == Len(txq) > 0 /\ txq[1].stage = st

SetHead(st, sn) == <<[txq[1] EXCEPT !.stage = st, !.snap = sn]>> \o Tail(txq)

----------------------------------------------------------------------------
Init ==
    /\ batchSize \in 1..MaxBatch
    /\ opc = "start"
    /\ cur = 1
    /\ inserted = [j \in Jobs |-> 0]
    /\ srcState = [j \in Jobs |-> "notstarted"]
    /\ produced = [j \in Jobs |-> 0]
    /\ rows = [j \in Jobs |-> <<>>]
    /\ totalRowCount = [j \in Jobs |-> 0]
    /\ promise = [j \in Jobs |-> "pending"]
    /\ result = [j \in Jobs |-> 0]
    /\ txq = <<>>
    /\ store = [j \in Jobs |-> <<>>]
    /\ failLog = <<>>
    /\ attempts = [j \in Jobs |-> <<>>]
    /\ nFailed = [j \in Jobs |-> 0]
    /\ failedSnap = [j \in Jobs |-> <<>>]
    /\ durableAtSettle = [j \in Jobs |-> 0]

----------------------------------------------------------------------------
\* processDataDump

\* processDataDump reaches the first insertDataWithSummary call: the stream
\* of customers.csv is created and starts flowing.
CallFirst ==
    /\ opc = "start"
    /\ opc' = "await"
    /\ srcState' = [srcState EXCEPT ![1] = "flowing"]
    /\ UNCHANGED <<batchSize, cur, inserted, produced, rows, totalRowCount, promise,
                   result, txq, store, failLog, durableAtSettle, ghostVars>>

\* JobSettled as it would be with one try/catch around all the jobs: a
\* rejected job ends the run, the jobs after it are never called.
JobSettledAbort ==
    /\ opc = "await"
    /\ promise[cur] # "pending"
    /\ inserted' = [inserted EXCEPT ![cur] = result[cur]]
    /\ IF cur < NumJobs /\ promise[cur] = "resolved"
       THEN /\ cur' = cur + 1
            /\ srcState' = [srcState EXCEPT ![cur + 1] = "flowing"]
            /\ txq' = txq
            /\ opc' = opc
       ELSE /\ opc' = "pragma1"
            /\ txq' = Append(txq, NewTx(0, "raw", <<>>))
            /\ UNCHANGED <<cur, srcState>>
    /\ UNCHANGED <<batchSize, produced, rows, totalRowCount, promise, result,
                   store, failLog, durableAtSettle, ghostVars>>

\* The awaited promise of the current job has settled: the try or the catch
\* stores its row count, then the next job is called, or the finally block
\* is entered after the last one.
JobSettled ==
    /\ opc = "await"
    /\ promise[cur] # "pending"
    /\ inserted' = [inserted EXCEPT ![cur] = result[cur]]
    /\ IF cur < NumJobs
       THEN /\ cur' = cur + 1
            /\ srcState' = [srcState EXCEPT ![cur + 1] = "flowing"]
            /\ txq' = txq
            /\ opc' = opc
       ELSE /\ opc' = "pragma1"
            /\ txq' = Append(txq, NewTx(0, "raw", <<>>))
            /\ UNCHANGED <<cur, srcState>>
    /\ UNCHANGED <<batchSize, produced, rows, totalRowCount, promise, result,
                   store, failLog, durableAtSettle, ghostVars>>

\* A PRAGMA of the finally block got the connection and has run.
RawDone ==
    /\ Running
    /\ HeadIs("begin")
    /\ txq[1].handler = "raw"
    /\ IF opc = "pragma1"
       THEN /\ opc' = "pragma2"
            /\ txq' = Append(Tail(txq), NewTx(0, "raw", <<>>))
       ELSE /\ opc' = "destroy"
            /\ txq' = Tail(txq)
    /\ UNCHANGED <<batchSize, cur, inserted, srcState, produced, rows, totalRowCount,
                   promise, result, store, failLog, durableAtSettle, ghostVars>>

\* db.destroy() returns, processDataDump returns and main's finally block
\* calls process.exit(0).
Destroy ==
    /\ opc = "destroy"
    /\ opc' = "exited"
    /\ UNCHANGED <<batchSize, cur, inserted, srcState, produced, rows, totalRowCount,
                   promise, result, txq, store, failLog, durableAtSettle, ghostVars>>

----------------------------------------------------------------------------
\* insertDataWithSummary: the stream's events

\* 'data': the row is pushed; when the array holds exactly batchSize rows
\* db.transaction is called and the handler waits for it.
OnData(j) ==
    /\ Running
    /\ srcState[j] = "flowing"
    /\ produced[j] < MaxRecords
    /\ produced' = [produced EXCEPT ![j] = @ + 1]
    /\ rows' = [rows EXCEPT ![j] = Append(@, produced[j] + 1)]
    /\ txq' = IF Len(rows'[j]) = batchSize
              THEN Append(txq, NewTx(j, "data", rows'[j]))
              ELSE txq
    /\ UNCHANGED <<batchSize, orchVars, srcState, totalRowCount, promise, result,
                   store, failLog, durableAtSettle, ghostVars>>

\* OnEnd as it would be without the await on db.transaction: the promise
\* is resolved as soon as the transaction of the remaining rows is requested.
OnEndNoAwait(j) ==
    /\ Running
    /\ srcState[j] = "flowing"
    /\ srcState' = [srcState EXCEPT ![j] = "ended"]
    /\ store' = store
    /\ txq' = IF Len(rows[j]) > 0 THEN Append(txq, NewTx(j, "end", rows[j])) ELSE txq
    /\ Settle(j, "resolved", totalRowCount[j])
    /\ UNCHANGED <<batchSize, orchVars, produced, rows, totalRowCount, failLog,
                   ghostVars>>

\* 'end': with rows left db.transaction is called for them, otherwise the
\* promise is resolved at once.
OnEnd(j) ==
    /\ Running
    /\ srcState[j] = "flowing"
    /\ srcState' = [srcState EXCEPT ![j] = "ended"]
    /\ store' = store
    /\ IF Len(rows[j]) > 0
       THEN /\ txq' = Append(txq, NewTx(j, "end", rows[j]))
            /\ UNCHANGED <<promise, result, durableAtSettle>>
       ELSE /\ txq' = txq
            /\ Settle(j, "resolved", totalRowCount[j])
    /\ UNCHANGED <<batchSize, orchVars, produced, rows, totalRowCount, failLog,
                   ghostVars>>

\* 'error': the parser failed; the stream emits nothing more.
OnError(j) ==
    /\ Running
    /\ srcState[j] = "flowing"
    /\ srcState' = [srcState EXCEPT ![j] = "errored"]
    /\ store' = store
    /\ Settle(j, "rejected_read", totalRowCount[j])
    /\ UNCHANGED <<batchSize, orchVars, produced, rows, totalRowCount, txq, failLog,
                   ghostVars>>

----------------------------------------------------------------------------
\* insertDataWithSummary: the transaction of a handler

\* TxStart as it would be if every db.transaction got a connection of its
\* own: any requested transaction begins, whatever its place in the queue.
TxStartUnpooled ==
    /\ Running
    /\ \E i \in 1..Len(txq) :
         /\ txq[i].stage = "begin"
         /\ txq[i].handler # "raw"
         /\ txq' = [txq EXCEPT ![i] = [@ EXCEPT !.stage = "insert",
                                                !.snap = rows[txq[i].job]]]
         /\ attempts' = [attempts EXCEPT ![txq[i].job] = Append(@, Len(rows[txq[i].job]))]
    /\ UNCHANGED <<batchSize, orchVars, srcState, produced, rows, totalRowCount,
                   promise, result, store, failLog, durableAtSettle, nFailed,
                   failedSnap>>

\* BEGIN has run and knex invokes the transaction callback, which issues
\* trx(tableName).insert(rows) with the array as it is now.
TxStart ==
    /\ Running
    /\ HeadIs("begin")
    /\ txq[1].handler # "raw"
    /\ LET j == txq[1].job IN
         /\ txq' = SetHead("insert", rows[j])
         /\ attempts' = [attempts EXCEPT ![j] = Append(@, Len(rows[j]))]
    /\ UNCHANGED <<batchSize, orchVars, srcState, produced, rows, totalRowCount,
                   promise, result, store, failLog, durableAtSettle, nFailed,
                   failedSnap>>

\* The insert returned.  On success the callback adds rows.length to
\* totalRowCount and returns, and knex issues COMMIT; on failure the callback
\* throws and knex issues ROLLBACK.
InsertDone(ok) ==
    /\ Running
    /\ HeadIs("insert")
    /\ LET j == txq[1].job IN
         IF ok
         THEN /\ totalRowCount' = [totalRowCount EXCEPT ![j] = @ + Len(rows[j])]
              /\ txq' = SetHead("commit", txq[1].snap)
         ELSE /\ totalRowCount' = totalRowCount
              /\ txq' = SetHead("rollback", txq[1].snap)
    /\ UNCHANGED <<batchSize, orchVars, srcState, produced, rows, promise, result,
                   store, failLog, durableAtSettle, ghostVars>>

\* COMMIT returned.  On success the inserted rows are durable, the
\* connection is released and db.transaction resolves: the 'data' handler
\* clears the array, the 'end' handler resolves the promise.  On failure the
\* transaction is rolled back.
CommitDone(ok) ==
    /\ Running
    /\ HeadIs("commit")
    /\ LET j == txq[1].job IN
         IF ok
         THEN /\ store' = [store EXCEPT ![j] = @ \o txq[1].snap]
              /\ txq' = Tail(txq)
              /\ IF txq[1].handler = "data"
                 THEN /\ rows' = [rows EXCEPT ![j] = <<>>]
                      /\ UNCHANGED <<promise, result, durableAtSettle>>
                 ELSE /\ rows' = rows
                      /\ Settle(j, "resolved", totalRowCount[j])
         ELSE /\ txq' = SetHead("rollback", txq[1].snap)
              /\ UNCHANGED <<store, rows, promise, result, durableAtSettle>>
    /\ UNCHANGED <<batchSize, orchVars, srcState, produced, totalRowCount, failLog,
                   ghostVars>>

\* The rollback is over, the connection is released and db.transaction
\* rejects: the handler's catch block logs the rows array and rejects the
\* promise with totalRowCount.  When fs.appendFileSync throws (logOk false,
\* possible only when there are rows to write) the exception leaves the
\* async handler before reject is reached: the rejection of the handler's
\* own promise is unhandled, which terminates the process (Node 18).
TxFailed(logOk) ==
    /\ Running
    /\ HeadIs("rollback")
    /\ logOk \/ Len(rows[txq[1].job]) > 0
    /\ LET j == txq[1].job IN
         /\ txq' = Tail(txq)
         /\ store' = store
         /\ nFailed' = [nFailed EXCEPT ![j] = @ + 1]
         /\ failedSnap' = IF nFailed[j] = 0
                          THEN [failedSnap EXCEPT ![j] = txq[1].snap]
                          ELSE failedSnap
         /\ IF logOk
            THEN /\ failLog' = logFailedRows(j, rows[j])
                 /\ Settle(j, "rejected_commit", totalRowCount[j])
                 /\ opc' = opc
            ELSE /\ opc' = "crashed"
                 /\ UNCHANGED <<failLog, promise, result, durableAtSettle>>
    /\ UNCHANGED <<batchSize, cur, inserted, srcState, produced, rows, totalRowCount,
                   attempts>>

----------------------------------------------------------------------------
Next ==
    \/ CallFirst
    \/ JobSettled
    \/ RawDone
    \/ Destroy
    \/ \E j \in Jobs : OnData(j)
    \/ \E j \in Jobs : OnEnd(j)
    \/ \E j \in Jobs : OnError(j)
    \/ TxStart
    \/ \E ok \in BOOLEAN : InsertDone(ok)
    \/ \E ok \in BOOLEAN : CommitDone(ok)
    \/ \E logOk \in BOOLEAN : TxFailed(logOk)

Spec == Init /\ [][Next]_vars

----------------------------------------------------------------------------
\* Vocabulary of the properties

\* A transaction of job j has been requested and has not yet returned to
\* its handler.
Outstanding(j) == \E i \in 1..Len(txq) : txq[i].job = j

\* The transactions of the insert handlers in the queue.
HandlerTx == {i \in 1..Len(txq) : txq[i].handler # "raw"}

\* Those whose insert has been issued: snap is the row set handed to the Sink.
Issued == {i \in HandlerTx : txq[i].stage # "begin"}

Ceil(n, c) == (n + c - 1) \div c

\* Sizes of the batches of n records at capacity c: all c, the last the rest.
ExpectedSizes(n, c) ==
    [i \in 1..Ceil(n, c) |-> IF i < Ceil(n, c) THEN c ELSE n - (Ceil(n, c) - 1) * c]

\* The records failed_rows.log holds for job j, in order.
LogOf(j) ==
    LET mine == SelectSeq(failLog, LAMBDA e : e[1] = j)
    IN  [i \in 1..Len(mine) |-> mine[i][2]]

\* The job has stopped: its stream is over and no transaction is outstanding.
Quiet(j) == srcState[j] \in {"ended", "errored"} /\ ~Outstanding(j)

----------------------------------------------------------------------------
\* C1: while a commit of a job is outstanding (from the moment the batch
\* became ready until db.transaction has returned and the failure logging is
\* done) no further record enters the job's rows buffer.
C1_NoRecordDuringCommit ==
    [][\A j \in Jobs : Outstanding(j) => Len(rows'[j]) <= Len(rows[j])]_vars

\* C2: the buffer never holds more than batchSize records and every row set
\* handed to the Sink holds between 1 and batchSize records.
C2_BatchWithinCapacity ==
    /\ \A j \in Jobs : Len(rows[j]) <= batchSize
    /\ \A i \in Issued : Len(txq[i].snap) >= 1 /\ Len(txq[i].snap) <= batchSize

\* C3: a job that has stopped without any failed commit has made exactly
\* ceil(N / C) commit attempts, each of size C except the last of size
\* N mod C (or C), N being the number of records its source produced.
C3_CommitAttempts ==
    \A j \in Jobs :
        (Quiet(j) /\ srcState[j] = "ended" /\ nFailed[j] = 0)
            => attempts[j] = ExpectedSizes(produced[j], batchSize)

\* C4: a job whose promise resolved reports as total the number of records
\* its source produced.
C4_CompletedTotalIsN ==
    \A j \in Jobs : promise[j] = "resolved" => result[j] = produced[j]

\* C5: totalRowCount never decreases, and it increases only in the step in
\* which the Sink confirms a commit of the job, by the size of that batch.
C5_CountOnlyAfterCommit ==
    [][\A j \in Jobs :
          /\ totalRowCount'[j] >= totalRowCount[j]
          /\ totalRowCount'[j] > totalRowCount[j] =>
                Len(store'[j]) - Len(store[j]) = totalRowCount'[j] - totalRowCount[j]
      ]_vars

\* C6: a job one of whose commits failed (and whose failed rows could be
\* logged) is rejected for it and reports the number of rows of the batches
\* that committed before the failed one.
C6_FailedTotalIsPriorBatches ==
    \A j \in Jobs :
        (nFailed[j] > 0 /\ srcState[j] # "errored" /\ opc # "crashed")
            => promise[j] = "rejected_commit" /\ result[j] = durableAtSettle[j]

\* C7: once a commit of a job has failed the job hands nothing more to the
\* Sink and takes no further record from its source.
C7_StopsAfterFailure ==
    [][\A j \in Jobs :
          nFailed[j] > 0 => attempts'[j] = attempts[j] /\ produced'[j] = produced[j]
      ]_vars

\* C8: after the commit of batch k failed, the table holds no record of
\* batch k or of a later batch.
C8_FailedBatchAbsent ==
    \A j \in Jobs :
        (nFailed[j] > 0 /\ failedSnap[j] # <<>>)
            => \A i \in 1..Len(store[j]) : store[j][i] < failedSnap[j][1]

\* C9: when a commit failed (and the log could be written) the failure log
\* holds exactly the records of the failed batch, once and in order.
C9_LogIsFailedBatch ==
    \A j \in Jobs :
        (nFailed[j] > 0 /\ opc # "crashed") => LogOf(j) = failedSnap[j]

\* C10: the row set a transaction inserts is the buffer as it was when the
\* batch became ready, and the buffer does not change until the transaction
\* has returned.
C10_BatchUnchanged ==
    \A i \in HandlerTx :
        /\ rows[txq[i].job] = txq[i].ready
        /\ i \in Issued => txq[i].snap = txq[i].ready

\* C11: processDataDump runs the jobs one at a time: a job is started only
\* when the job before it has stopped (its stream is over and none of its
\* transactions is outstanding).
C11_OneJobAtATime ==
    \A j \in Jobs :
        (j < NumJobs /\ srcState[j + 1] # "notstarted") => Quiet(j)

\* The transactions that are open on the connection: BEGIN has run and
\* neither COMMIT nor ROLLBACK has returned.
OpenTx == {i \in 1..Len(txq) : txq[i].stage \in {"insert", "commit", "rollback"}}

\* C12: at most one transaction is open on the shared connection at any
\* time, whichever handlers and jobs have requested transactions.
C12_OneOpenTransaction == Cardinality(OpenTx) <= 1

\* Two handlers have requested a transaction and one of them is open.
C12_Witness == Cardinality(HandlerTx) >= 2 /\ OpenTx # {}

\* C17: whatever happens to the write of the failure log, a job one of whose
\* commits failed is rejected for it (unless its source had already failed),
\* and the failure does not leave the job as a raised error that ends the
\* process.
C17_LogFailureKeepsOutcome ==
    /\ opc # "crashed"
    /\ \A j \in Jobs :
          nFailed[j] > 0 => (promise[j] = "rejected_commit" \/ srcState[j] = "errored")

\* processDataDump has left the last job behind (it is in its finally block
\* or has returned).
RunOver == opc \in {"pragma1", "pragma2", "destroy", "exited"}

C14_SourceErrorTotal ==
    \A j \in Jobs :
        promise[j] = "rejected_read"
            => result[j] = durableAtSettle[j] /\ Len(store[j]) = durableAtSettle[j]

\* C15: a job whose promise resolved has seen the end of its source, has no
\* transaction outstanding and has had no transaction fail.
C15_CompletedAfterLastCommit ==
    \A j \in Jobs :
        promise[j] = "resolved"
            => srcState[j] = "ended" /\ ~Outstanding(j) /\ nFailed[j] = 0

\* A job resolved after the commit of a non-empty trailing partial batch.
C15_Witness ==
    \E j \in Jobs :
        /\ promise[j] = "resolved"
        /\ attempts[j] = <<1>>
        /\ batchSize = 2
        /\ store[j] = <<1>>

\* C16: once a job has stopped, the row count reported for it is the number
\* of rows of its table that are durable.
C16_ReportedIsDurable ==
    \A j \in Jobs :
        (Quiet(j) /\ promise[j] # "pending") => result[j] = Len(store[j])

\* C19: a job that resolved without any failed transaction has stored
\* exactly the records its source produced, each once, in source order.
C19_ExactlyOnce ==
    \A j \in Jobs :
        (promise[j] = "resolved" /\ nFailed[j] = 0 /\ Quiet(j))
            => store[j] = [i \in 1..produced[j] |-> i]

\* C20: when processDataDump has come to db.destroy(), and from then on, no
\* transaction of a job is requested or in flight.
C20_NoTransactionAtDestroy ==
    opc \in {"destroy", "exited"} => HandlerTx = {}

\* The event loop keeps running whatever is ready: a stream event, the
\* return of a database call, the continuation of processDataDump.
FairSpec == Spec /\ WF_vars(Next)

\* C18: every job eventually settles and processDataDump eventually gets
\* through all jobs and its finally block, so that the process exits
\* normally with an outcome stored for every job.
C18_RunTerminates ==
    <>(opc = "exited" /\ \A j \in Jobs : promise[j] # "pending")

====
